---- MODULE Spec2Model ----
(***************************************************************************)
(* Model of the codecs of imp_encoding: the box-layout codec               *)
(* (src/src/boxes.rs), the diacritic codec (src/src/cursed.rs) and the     *)
(* rune codec (src/src/futhark.rs).                                        *)
(*                                                                         *)
(* Strings of the program are sequences of characters; a character is a    *)
(* TLA+ string ("A", "#", " ", "\n") and a box-drawing character is named  *)
(* by its code point ("U250C").  Option<T> is a sequence of length 0       *)
(* (None) or 1 (Some(v)).  Coordinates x, y are 0-based as in the source.  *)
(***************************************************************************)
EXTENDS Integers, Sequences, FiniteSets, TLC

VARIABLES
    pc,        \* position of the modelled call
    length,    \* bytes.len() of the payload given to layout_byte_length
    config,    \* Option<BoxLayoutConfig>
    layout,    \* BoxLayout.0 : Vec<Vec<String>>, rows of cells
    prev,      \* history: the layout before the last growth step (<<>> if none)
    result,    \* Option<BoxLayout> returned by layout_byte_length
    bytes,     \* the payload read by display_bytes
    enc,       \* bytes_to_points when it returned: results, bits, offset, x, y
    shown,     \* display_bytes cell by cell: <<x, y, the characters pushed>>
    text,      \* the String produced by display_bytes
    parsed,    \* Vec<(u8, usize)> produced by parse_boxes_to_points
    decoded,   \* Vec<u8> produced by box_points_to_bytes
    capacity,  \* Option<usize>: last value returned by calculate_bits
    estimate,  \* Option<usize>: last value returned by estimate_bits
    conns,     \* get_connections_at of every cell of layout, once classified
    packed,    \* Vec<u8> produced by bytes_to_diactrics_points / bytes_to_points
    unpacked,  \* Vec<u8> produced from packed by the inverse packing function
    cover,     \* the text given to generate_curse, a sequence of code points
    curse,     \* CursedConfig given to generate_curse
    alphabet   \* the alphabet given to generate_runes and parse_runes

vars == <<pc, length, config, layout, prev, result, bytes, enc, shown, text,
          parsed, decoded, capacity, estimate, conns, packed, unpacked, cover,
          curse, alphabet>>

----------------------------------------------------------------------------
(* Option<T> *)

None == <<>>

Some(v) == <<v>>

unwrap_or(o, d) == IF o = None THEN d ELSE o[1]

Max(a, b) == IF a >= b THEN a ELSE b

Pow2(n) == 2 ^ n

----------------------------------------------------------------------------
(* Glyph families, boxes.rs:3-13.  Each is the sequence of the characters  *)
(* of the constant; every character is one grapheme.                       *)

TOP_LEFT == <<"U250C", "U250D", "U250E", "U250F">>

TOP_RIGHT == <<"U2510", "U2511", "U2512", "U2513">>

BOTTOM_LEFT == <<"U2514", "U2515", "U2516", "U2517">>

BOTTOM_RIGHT == <<"U2518", "U2519", "U251A", "U251B">>

LEFT == <<"U251C", "U251D", "U251E", "U251F", "U2520", "U2521", "U2522", "U2523">>

RIGHT == <<"U2524", "U2525", "U2526", "U2527", "U2528", "U2529", "U252A", "U252B">>

TOP == <<"U252C", "U252D", "U252E", "U252F", "U2530", "U2531", "U2532", "U2533">>

BOTTOM == <<"U2534", "U2535", "U2536", "U2537", "U2538", "U2539", "U253A", "U253B">>

CROSS == <<"U253C", "U253D", "U253E", "U253F", "U2540", "U2541", "U2542", "U2543",
           "U2544", "U2545", "U2546", "U2547", "U2548", "U2549", "U254A", "U254B">>

\* HORIZONTAL with the third character taken from VERTICAL
HORIZONTAL_mut == <<"U2500", "U257C", "U2503", "U257E">>

HORIZONTAL == <<"U2500", "U257C", "U2501", "U257E">>

VERTICAL == <<"U2502", "U257D", "U2503", "U257F">>

FILLED == "#"

----------------------------------------------------------------------------
(* BoxLayout, boxes.rs:30-108 *)

new(w, h) == [y \in 1..h |-> [x \in 1..w |-> FILLED]]

width(l) == Len(l[1])

height(l) == Len(l)

\* self.0[y][x]; the caller guarantees x < width and y < height
Cell(l, x, y) == l[y + 1][x + 1]

calculate_bits(l) ==
    LET w == width(l)
        h == height(l)
        active_neighbors(x, y) ==
            (IF x < Len(l[y + 1]) - 1 /\ Cell(l, x + 1, y) = FILLED THEN 2 ELSE 0)
          + (IF y < Len(l) - 1 /\ Cell(l, x, y + 1) = FILLED THEN 2 ELSE 0)
        bit_count[k \in 0..(w * h)] ==
            IF k = 0 THEN 0
            ELSE LET x == (k - 1) % w
                     y == (k - 1) \div w
                 IN bit_count[k - 1]
                    + (IF Cell(l, x, y) = FILLED THEN active_neighbors(x, y) ELSE 0)
    IN bit_count[w * h]

\* estimate_bits with the height used for the width in the second term
estimate_bits_mut(w, h) ==
    LET length_wise == (w - 1) * 2 * h
        height_wise == (h - 1) * 2 * h
    IN length_wise + height_wise

estimate_bits(w, h) ==
    LET length_wise == (w - 1) * 2 * h
        height_wise == (h - 1) * 2 * w
    IN length_wise + height_wise

is_filled(l, x, y) == Cell(l, x, y) = FILLED

get_blackout_at(l, x, y) ==
    IF y < Len(l) /\ x < Len(l[y + 1])
    THEN (IF Cell(l, x, y) = FILLED THEN None ELSE Some(Cell(l, x, y)))
    ELSE None

\* get_connections_at with the classes of two corner patterns exchanged
get_connections_at_mut(l, x, y) ==
    IF ~is_filled(l, x, y) THEN None
    ELSE LET right == x < width(l) - 1 /\ is_filled(l, x + 1, y)
             left == x > 0 /\ is_filled(l, x - 1, y)
             down == y < height(l) - 1 /\ is_filled(l, x, y + 1)
             up == y > 0 /\ is_filled(l, x, y - 1)
             m == <<right, left, down, up>>
         IN CASE m = <<TRUE, TRUE, FALSE, FALSE>> -> Some("RightLeft")
              [] m = <<FALSE, FALSE, TRUE, TRUE>> -> Some("DownUp")
              [] m = <<TRUE, FALSE, TRUE, FALSE>> -> Some("RightDown")
              [] m = <<FALSE, TRUE, TRUE, FALSE>> -> Some("LeftDown")
              [] m = <<TRUE, FALSE, FALSE, TRUE>> -> Some("LeftUp")
              [] m = <<FALSE, TRUE, FALSE, TRUE>> -> Some("RightUp")
              [] m = <<TRUE, TRUE, TRUE, FALSE>> -> Some("RightLeftDown")
              [] m = <<TRUE, TRUE, FALSE, TRUE>> -> Some("RightLeftUp")
              [] m = <<TRUE, FALSE, TRUE, TRUE>> -> Some("RightDownUp")
              [] m = <<FALSE, TRUE, TRUE, TRUE>> -> Some("LeftDownUp")
              [] m = <<TRUE, TRUE, TRUE, TRUE>> -> Some("All")
              [] OTHER -> None

get_connections_at(l, x, y) ==
    IF ~is_filled(l, x, y) THEN None
    ELSE LET right == x < width(l) - 1 /\ is_filled(l, x + 1, y)
             left == x > 0 /\ is_filled(l, x - 1, y)
             down == y < height(l) - 1 /\ is_filled(l, x, y + 1)
             up == y > 0 /\ is_filled(l, x, y - 1)
             m == <<right, left, down, up>>
         IN CASE m = <<TRUE, TRUE, FALSE, FALSE>> -> Some("RightLeft")
              [] m = <<FALSE, FALSE, TRUE, TRUE>> -> Some("DownUp")
              [] m = <<TRUE, FALSE, TRUE, FALSE>> -> Some("RightDown")
              [] m = <<FALSE, TRUE, TRUE, FALSE>> -> Some("LeftDown")
              [] m = <<TRUE, FALSE, FALSE, TRUE>> -> Some("RightUp")
              [] m = <<FALSE, TRUE, FALSE, TRUE>> -> Some("LeftUp")
              [] m = <<TRUE, TRUE, TRUE, FALSE>> -> Some("RightLeftDown")
              [] m = <<TRUE, TRUE, FALSE, TRUE>> -> Some("RightLeftUp")
              [] m = <<TRUE, FALSE, TRUE, TRUE>> -> Some("RightDownUp")
              [] m = <<FALSE, TRUE, TRUE, TRUE>> -> Some("LeftDownUp")
              [] m = <<TRUE, TRUE, TRUE, TRUE>> -> Some("All")
              [] OTHER -> None

----------------------------------------------------------------------------
(* Connections, boxes.rs:195-249 *)

Connections == {"RightDown", "LeftDown", "RightUp", "LeftUp", "DownUp", "RightLeft",
                "RightLeftDown", "RightLeftUp", "RightDownUp", "LeftDownUp", "All"}

get_bits(c) ==
    CASE c = "RightDown" -> 2
      [] c = "LeftDown" -> 2
      [] c = "RightUp" -> 2
      [] c = "LeftUp" -> 2
      [] c = "DownUp" -> 2
      [] c = "RightLeft" -> 2
      [] c = "RightLeftDown" -> 3
      [] c = "RightLeftUp" -> 3
      [] c = "RightDownUp" -> 3
      [] c = "LeftDownUp" -> 3
      [] c = "All" -> 4

my_chars(c) ==
    CASE c = "RightDown" -> TOP_LEFT
      [] c = "LeftDown" -> TOP_RIGHT
      [] c = "RightUp" -> BOTTOM_LEFT
      [] c = "LeftUp" -> BOTTOM_RIGHT
      [] c = "DownUp" -> VERTICAL
      [] c = "RightLeft" -> HORIZONTAL
      [] c = "RightLeftDown" -> TOP
      [] c = "RightLeftUp" -> BOTTOM
      [] c = "RightDownUp" -> LEFT
      [] c = "LeftDownUp" -> RIGHT
      [] c = "All" -> CROSS

\* .graphemes(true).nth(point).unwrap(): None when point is past the family
get_character(c, point) ==
    IF point < Len(my_chars(c)) THEN Some(my_chars(c)[point + 1]) ELSE None

----------------------------------------------------------------------------
(* layout_byte_length, boxes.rs:251-310 *)

\* config.as_ref().and_then(|c| c.<field>).unwrap_or(d)
config_or(cfg, field, d) == IF cfg = None THEN d ELSE unwrap_or(cfg[1][field], d)

\* config.as_ref().and_then(|c| Some(c.blackouts.clone())).unwrap_or_default()
blackouts_of(cfg) == IF cfg = None THEN <<>> ELSE cfg[1].blackouts

\* Bytes of one character in UTF-8: the characters U+2500..U+257F take three.
BoxChars ==
    {TOP_LEFT[i] : i \in DOMAIN TOP_LEFT} \cup {TOP_RIGHT[i] : i \in DOMAIN TOP_RIGHT}
    \cup {BOTTOM_LEFT[i] : i \in DOMAIN BOTTOM_LEFT}
    \cup {BOTTOM_RIGHT[i] : i \in DOMAIN BOTTOM_RIGHT}
    \cup {LEFT[i] : i \in DOMAIN LEFT} \cup {RIGHT[i] : i \in DOMAIN RIGHT}
    \cup {TOP[i] : i \in DOMAIN TOP} \cup {BOTTOM[i] : i \in DOMAIN BOTTOM}
    \cup {CROSS[i] : i \in DOMAIN CROSS} \cup {HORIZONTAL[i] : i \in DOMAIN HORIZONTAL}
    \cup {VERTICAL[i] : i \in DOMAIN VERTICAL}

utf8_len(c) == IF c \in BoxChars THEN 3 ELSE 1

\* String::len(): the length in bytes
RECURSIVE str_len(_)
str_len(s) == IF s = <<>> THEN 0 ELSE utf8_len(Head(s)) + str_len(Tail(s))

bit_length_of(len) == len * 8

max_width_of(len, cfg) == config_or(cfg, "max_width", bit_length_of(len))

max_height_of(len, cfg) == config_or(cfg, "max_height", bit_length_of(len))

\* the target aspect ratio as a fraction <<numerator, denominator>>; the
\* ratios used are exact in f32 and the grids are small, so the f32
\* comparison of line 290 is the comparison of the fractions
aspect_ratio_of(cfg) == config_or(cfg, "aspect_ratio", <<1, 1>>)

\* lines 264-273: the loop that raises the minima, over blackouts k..
RECURSIVE min_width_from(_, _, _)
min_width_from(bls, k, w) ==
    IF k > Len(bls) THEN w
    ELSE min_width_from(bls, k + 1, Max(w, bls[k][1] + str_len(bls[k][3]) + 1))

RECURSIVE min_height_from(_, _, _)
min_height_from(bls, k, h) ==
    IF k > Len(bls) THEN h
    ELSE min_height_from(bls, k + 1, Max(h, bls[k][2] + 1))

min_width_of(cfg) == min_width_from(blackouts_of(cfg), 1, config_or(cfg, "min_width", 2))

min_height_of(cfg) == min_height_from(blackouts_of(cfg), 1, config_or(cfg, "min_height", 2))

\* lines 282-284: one blackout written into the grid, characters i.. of value
RECURSIVE write_blackout(_, _, _, _, _)
write_blackout(l, left, top, value, i) ==
    IF i > Len(value) THEN l
    ELSE write_blackout([l EXCEPT ![top + 1][left + i] = value[i]],
                        left, top, value, i + 1)

\* lines 277-285: every blackout in order, a later one overwriting an earlier
RECURSIVE write_blackouts(_, _, _)
write_blackouts(l, bls, k) ==
    IF k > Len(bls) THEN l
    ELSE write_blackouts(write_blackout(l, bls[k][1], bls[k][2], bls[k][3], 1),
                         bls, k + 1)

\* lines 252-285
base_layout(cfg) ==
    write_blackouts(new(min_width_of(cfg), min_height_of(cfg)), blackouts_of(cfg), 1)

\* the growth loop continuing while the capacity is <= the bit length
must_grow_mut(l, len, cfg) ==
    /\ calculate_bits(l) <= bit_length_of(len)
    /\ ~(height(l) >= max_height_of(len, cfg) /\ width(l) >= max_width_of(len, cfg))

\* the growth loop without the test of the maxima
must_grow_unbounded(l, len, cfg) == calculate_bits(l) < bit_length_of(len)

\* lines 286-287: the condition of the growth loop
must_grow(l, len, cfg) ==
    /\ calculate_bits(l) < bit_length_of(len)
    /\ ~(height(l) >= max_height_of(len, cfg) /\ width(l) >= max_width_of(len, cfg))

\* a row chosen when the ratio is at or above the target
new_row_mut(l, len, cfg) ==
    LET ar == aspect_ratio_of(cfg)
        current_below == height(l) * ar[2] < ar[1] * width(l)
    IN (~current_below /\ height(l) < max_height_of(len, cfg))
       \/ width(l) >= max_width_of(len, cfg)

\* lines 289-291
new_row(l, len, cfg) ==
    LET ar == aspect_ratio_of(cfg)
        current_below == height(l) * ar[2] < ar[1] * width(l)
    IN (current_below /\ height(l) < max_height_of(len, cfg))
       \/ width(l) >= max_width_of(len, cfg)

\* a row of blank cells pushed instead of a row of FILLED cells
push_row_mut(l) == Append(l, [x \in 1..width(l) |-> " "])

push_row(l) == Append(l, [x \in 1..width(l) |-> FILLED])

push_column(l) == [y \in 1..height(l) |-> Append(l[y], FILLED)]

\* the final test without the bound on the height
fits_mut(l, len, cfg) ==
    /\ calculate_bits(l) >= bit_length_of(len)
    /\ width(l) <= max_width_of(len, cfg)

\* lines 302-309
fits(l, len, cfg) ==
    /\ calculate_bits(l) >= bit_length_of(len)
    /\ height(l) <= max_height_of(len, cfg)
    /\ width(l) <= max_width_of(len, cfg)

codec_idle == <<bytes, enc, shown, text, parsed, decoded>>

probe_idle == <<capacity, estimate, conns>>

\* the state of the diacritic and rune codecs
cipher_idle == <<packed, unpacked, cover, curse, alphabet>>

\* lines 252-285: the call starts, the base layout is built
LayoutStart ==
    /\ pc = "start"
    /\ layout' = base_layout(config)
    /\ pc' = "grow"
    /\ UNCHANGED <<cipher_idle, length, config, prev, result, codec_idle, probe_idle>>

\* lines 286-301: one iteration of the growth loop
LayoutGrow ==
    /\ pc = "grow"
    /\ must_grow(layout, length, config)
    /\ layout' = IF new_row(layout, length, config)
                 THEN push_row(layout) ELSE push_column(layout)
    /\ prev' = layout
    /\ UNCHANGED <<cipher_idle, pc, length, config, result, codec_idle, probe_idle>>

\* lines 302-309: the loop has ended, the function returns
LayoutReturn ==
    /\ pc = "grow"
    /\ ~must_grow(layout, length, config)
    /\ result' = IF fits(layout, length, config) THEN Some(layout) ELSE None
    /\ pc' = "sized"
    /\ UNCHANGED <<cipher_idle, length, config, layout, prev, codec_idle, probe_idle>>

----------------------------------------------------------------------------
(* u32 arithmetic of the bit accumulators *)

RECURSIVE bit_or(_, _)
bit_or(a, b) ==
    IF a = 0 THEN b
    ELSE IF b = 0 THEN a
    ELSE (IF a % 2 = 1 \/ b % 2 = 1 THEN 1 ELSE 0) + 2 * bit_or(a \div 2, b \div 2)

\* (a as u32) << n.  The accumulators hold fewer than 16 bits (a byte or a
\* point is added above at most 7 pending bits), so no bit reaches bit 31;
\* TLC reports an overflow of its own 32-bit integers if one ever did.
shl(a, n) == a * Pow2(n)

shr(a, n) == a \div Pow2(n)

low_bits_mut(a, n) == a % Pow2(n + 1)

\* a & ((1 << n) - 1)
low_bits(a, n) == a % Pow2(n)

----------------------------------------------------------------------------
(* BoxLayout::bytes_to_points, boxes.rs:111-143 *)

\* lines 131-136 (and 159-163, 179-186): the cursor moves to the next cell
next_x(l, x) == IF x < width(l) - 1 THEN x + 1 ELSE 0

next_y(l, x, y) == IF x < width(l) - 1 THEN y ELSE y + 1

\* lines 120-140: the loop 'push_bits, from the state st.  The index
\* self.0[y] of is_filled is out of bounds when the cursor has left the grid;
\* the function then panics.
RECURSIVE push_bits(_, _)
push_bits(l, st) ==
    IF st.y >= height(l) THEN [st EXCEPT !.panic = TRUE]
    ELSE LET connection == get_connections_at(l, st.x, st.y)
             connection_bits == get_bits(connection[1])
             fits_point == connection /= None /\ st.offset >= connection_bits
             pushed ==
                 IF fits_point
                 THEN [st EXCEPT !.results = Append(@, low_bits(st.bits, connection_bits)),
                                 !.cells = Append(@, <<st.x, st.y>>),
                                 !.bits = shr(@, connection_bits),
                                 !.offset = @ - connection_bits]
                 ELSE st
             moved == [pushed EXCEPT !.x = next_x(l, st.x), !.y = next_y(l, st.x, st.y)]
         IN IF connection /= None /\ ~fits_point THEN st
            ELSE IF moved.offset = 0 THEN moved
            ELSE push_bits(l, moved)

\* lines 117-141: the loop over the bytes, from byte i
RECURSIVE bytes_loop(_, _, _, _)
bytes_loop(l, bs, i, st) ==
    IF i > Len(bs) \/ st.panic THEN st
    ELSE bytes_loop(l, bs, i + 1,
                    push_bits(l, [st EXCEPT !.bits = bit_or(@, shl(bs[i], st.offset)),
                                            !.offset = @ + 8]))

\* the state in which bytes_to_points returns (or panics); results is the
\* value returned.  cells is a history of the run: the cell (x, y) at the
\* cursor when each point of results was pushed.
bytes_to_points_run(l, bs) ==
    bytes_loop(l, bs, 1, [results |-> <<>>, cells |-> <<>>, bits |-> 0, offset |-> 0,
                          x |-> 0, y |-> 0, panic |-> FALSE])

bytes_to_points(l, bs) == bytes_to_points_run(l, bs).results

----------------------------------------------------------------------------
(* BoxLayout::display_bytes, boxes.rs:145-192 *)

\* lines 164-166 (and 187-189): the line break after the last cell of a row
line_break(l, x, y) ==
    IF x < width(l) - 1 \/ y + 1 >= height(l) THEN <<>> ELSE <<"\n">>

\* lines 152-168: the cells walked until the point is pushed
RECURSIVE place_point(_, _, _)
place_point(l, point, st) ==
    LET blackout == get_blackout_at(l, st.x, st.y)
    IN IF blackout = None /\ st.y >= height(l) THEN [st EXCEPT !.panic = TRUE]
       ELSE LET connection == IF blackout = None
                              THEN get_connections_at(l, st.x, st.y) ELSE None
                character == IF connection = None THEN None
                             ELSE get_character(connection[1], point)
                pushed == IF blackout /= None THEN blackout
                          ELSE IF connection /= None THEN character
                          ELSE <<>>
                moved == [st EXCEPT
                            !.shown = Append(@, <<st.x, st.y, pushed>>),
                            !.result = @ \o pushed \o line_break(l, st.x, st.y),
                            !.x = next_x(l, st.x), !.y = next_y(l, st.x, st.y)]
            IN IF connection /= None /\ character = None THEN [st EXCEPT !.panic = TRUE]
               ELSE IF connection /= None THEN moved
               ELSE place_point(l, point, moved)

\* lines 150-169: the loop over the points, from point i
RECURSIVE points_loop(_, _, _, _)
points_loop(l, points, i, st) ==
    IF i > Len(points) \/ st.panic THEN st
    ELSE points_loop(l, points, i + 1, place_point(l, points[i], st))

\* the cells left after the last point are left blank
RECURSIVE rest_loop_mut(_, _)
rest_loop_mut(l, st) ==
    IF st.y >= height(l) THEN st
    ELSE LET blackout == get_blackout_at(l, st.x, st.y)
             pushed == IF blackout /= None THEN blackout ELSE <<" ">>
         IN rest_loop_mut(l, [st EXCEPT
                                !.shown = Append(@, <<st.x, st.y, pushed>>),
                                !.result = @ \o pushed \o line_break(l, st.x, st.y),
                                !.x = next_x(l, st.x), !.y = next_y(l, st.x, st.y)])

\* lines 170-190: the cells left after the last point
RECURSIVE rest_loop(_, _)
rest_loop(l, st) ==
    IF st.y >= height(l) THEN st
    ELSE LET connection == get_connections_at(l, st.x, st.y)
             blackout == get_blackout_at(l, st.x, st.y)
             pushed == IF connection /= None THEN get_character(connection[1], 0)
                       ELSE IF blackout /= None THEN blackout
                       ELSE <<" ">>
         IN rest_loop(l, [st EXCEPT
                            !.shown = Append(@, <<st.x, st.y, pushed>>),
                            !.result = @ \o pushed \o line_break(l, st.x, st.y),
                            !.x = next_x(l, st.x), !.y = next_y(l, st.x, st.y)])

\* the state in which display_bytes returns (or panics); result is the String
display_bytes_run(l, bs) ==
    LET run == bytes_to_points_run(l, bs)
        st == [result |-> <<>>, shown |-> <<>>, x |-> 0, y |-> 0, panic |-> run.panic]
        placed == points_loop(l, run.results, 1, st)
    IN IF placed.panic THEN placed ELSE rest_loop(l, placed)

display_bytes(l, bs) == display_bytes_run(l, bs).result

----------------------------------------------------------------------------
(* parse_boxes_to_points and box_points_to_bytes, boxes.rs:327-384 *)

\* s.graphemes(true): the extended grapheme clusters of s.  The characters of
\* this model (letters, "#", " ", "\n", box-drawing characters) are each a
\* cluster of their own.
graphemes(s) == [i \in 1..Len(s) |-> <<s[i]>>]

\* str::contains: grapheme occurs in set as a substring
contains(set, grapheme) ==
    \E i \in 1..(Len(set) - Len(grapheme) + 1) :
        SubSeq(set, i, i + Len(grapheme) - 1) = grapheme

point_from_grapheme_in_set_mut(grapheme, set) ==
    LET gs == graphemes(set)
        hits == {i \in 1..Len(gs) : gs[i] = grapheme}
    IN CHOOSE i \in hits : \A j \in hits : i <= j

\* lines 327-332: the position of grapheme among the graphemes of set
point_from_grapheme_in_set(grapheme, set) ==
    LET gs == graphemes(set)
        hits == {i \in 1..Len(gs) : gs[i] = grapheme}
    IN (CHOOSE i \in hits : \A j \in hits : i <= j) - 1

\* lines 337-359: the families in the order they are tested, with the width
\* pushed for each
families ==
    << <<CROSS, 4>>, <<LEFT, 3>>, <<RIGHT, 3>>, <<TOP, 3>>, <<BOTTOM, 3>>,
       <<TOP_LEFT, 2>>, <<TOP_RIGHT, 2>>, <<BOTTOM_LEFT, 2>>, <<BOTTOM_RIGHT, 2>>,
       <<HORIZONTAL, 2>>, <<VERTICAL, 2>> >>

\* lines 337-360 for one grapheme, testing the families fams in order: the
\* pair pushed, None for a grapheme of no family
parse_grapheme(grapheme, fams) ==
    LET hits == {k \in 1..Len(fams) : contains(fams[k][1], grapheme)}
    IN IF hits = {} THEN None
       ELSE LET k == CHOOSE k \in hits : \A j \in hits : k <= j
            IN Some(<<point_from_grapheme_in_set(grapheme, fams[k][1]), fams[k][2]>>)

RECURSIVE parse_from(_, _)
parse_from(gs, i) ==
    IF i > Len(gs) THEN <<>>
    ELSE parse_grapheme(gs[i], families) \o parse_from(gs, i + 1)

parse_boxes_to_points(s) == parse_from(graphemes(s), 1)

RECURSIVE flush_bytes_mut(_)
flush_bytes_mut(st) ==
    IF st.offset <= 8 THEN st
    ELSE flush_bytes_mut([st EXCEPT !.bytes = Append(@, low_bits(st.bits, 8)),
                                    !.bits = shr(@, 8), !.offset = @ - 8])

\* lines 377-381: the full bytes are pushed, low-order first
RECURSIVE flush_bytes(_)
flush_bytes(st) ==
    IF st.offset < 8 THEN st
    ELSE flush_bytes([st EXCEPT !.bytes = Append(@, low_bits(st.bits, 8)),
                                !.bits = shr(@, 8), !.offset = @ - 8])

\* lines 369-382: the loop over the points, from point i
RECURSIVE points_to_bytes_loop(_, _, _)
points_to_bytes_loop(points, i, st) ==
    IF i > Len(points) THEN st
    ELSE LET point == points[i][1]
             bits_per_point == points[i][2]
             added == IF st.offset = 0
                      THEN [st EXCEPT !.bits = point, !.offset = bits_per_point]
                      ELSE [st EXCEPT !.bits = bit_or(@, shl(point, st.offset)),
                                      !.offset = @ + bits_per_point]
         IN points_to_bytes_loop(points, i + 1, flush_bytes(added))

box_points_to_bytes(points) ==
    points_to_bytes_loop(points, 1, [bytes |-> <<>>, bits |-> 0, offset |-> 0]).bytes

----------------------------------------------------------------------------
(* The calls explored.                                                     *)

MaxLen == 2

MaxMin == 2

MaxMax == 3

MaxPos == 1

Lengths == 0..MaxLen

MinOpts == {None} \cup {Some(n) : n \in 1..MaxMin}

MaxOpts == {None} \cup {Some(n) : n \in 1..MaxMax}

\* None is 1.0
AspectOpts == {None, Some(<<1, 2>>), Some(<<2, 1>>)}

Texts == {<<"A">>, <<"#">>, <<"A", "B">>}

Blackouts == (0..MaxPos) \X (0..MaxPos) \X Texts

BlackoutLists ==
    {<<>>} \cup {<<b>> : b \in Blackouts}
    \cup {<< <<0, 0, <<"A", "B">> >>, <<1, 0, <<"C">> >> >>}

BoxLayoutConfig ==
    [min_width : MinOpts, max_width : MaxOpts, min_height : MinOpts,
     max_height : MaxOpts, aspect_ratio : AspectOpts, blackouts : BlackoutLists]

Configs == {None} \cup {Some(c) : c \in BoxLayoutConfig}

\* BoxLayoutConfig { ..Default::default() }
default_config ==
    [min_width |-> None, max_width |-> None, min_height |-> None,
     max_height |-> None, aspect_ratio |-> None, blackouts |-> <<>>]

\* the calls of test_layout_data (boxes.rs:509-538) and test_create_boxes
\* (boxes.rs:548-570)
test_hello_call ==
    <<8, Some([default_config EXCEPT !.min_width = Some(4), !.min_height = Some(3),
                  !.aspect_ratio = Some(<<1, 1>>),
                  !.blackouts = << <<1, 1, <<"H", "e", "l", "l", "o">> >> >>])>>

test_default_call == <<8, None>>

test_wide_call ==
    <<150, Some([default_config EXCEPT !.max_width = Some(80), !.max_height = Some(5)])>>

test_create_boxes_call ==
    <<7, Some([default_config EXCEPT !.min_width = Some(4), !.min_height = Some(3),
                  !.aspect_ratio = Some(<<1, 1>>),
                  !.blackouts = << <<1, 1, <<" ", "C", "+", "c", " ">> >> >>])>>

TestCalls == {test_hello_call, test_default_call, test_wide_call, test_create_boxes_call}

Calls == (Lengths \X Configs) \cup TestCalls

InitIdle ==
    /\ layout = <<>>
    /\ prev = <<>>
    /\ result = None
    /\ bytes = <<>>
    /\ enc = None
    /\ shown = <<>>
    /\ text = None
    /\ parsed = <<>>
    /\ decoded = <<>>
    /\ capacity = None
    /\ estimate = None
    /\ conns = <<>>
    /\ packed = <<>>
    /\ unpacked = <<>>
    /\ cover = <<>>
    /\ curse = <<>>
    /\ alphabet = <<>>

\* a call of layout_byte_length(length, config)
Init ==
    /\ pc = "start"
    /\ \E c \in Calls : length = c[1] /\ config = c[2]
    /\ InitIdle

Next == LayoutStart \/ LayoutGrow \/ LayoutReturn

Spec == Init /\ [][Next]_vars

----------------------------------------------------------------------------
(* generate_boxes and its inverse, boxes.rs:312-315, 334-384 *)

ByteVals == {0, 165}

Payloads(len) == [1..len -> ByteVals]

\* generate_boxes, line 313: layout_byte_length(..).unwrap() on None
GenerateUnwrapNone ==
    /\ pc = "sized"
    /\ result = None
    /\ pc' = "panic"
    /\ UNCHANGED <<cipher_idle, length, config, layout, prev, result, codec_idle, probe_idle>>

\* generate_boxes, line 314: layout.display_bytes(bytes)
GenerateBoxes ==
    /\ pc = "sized"
    /\ result /= None
    /\ \E b \in Payloads(length) :
          LET run == bytes_to_points_run(result[1], b)
              d == display_bytes_run(result[1], b)
          IN /\ bytes' = b
             /\ enc' = Some(run)
             /\ shown' = d.shown
             /\ text' = IF d.panic THEN None ELSE Some(d.result)
             /\ pc' = IF d.panic THEN "panic" ELSE "rendered"
    /\ UNCHANGED <<cipher_idle, length, config, layout, prev, result, parsed, decoded, probe_idle>>

\* parse_boxes_to_points on the rendered text
ParseBoxes ==
    /\ pc = "rendered"
    /\ parsed' = parse_boxes_to_points(text[1])
    /\ pc' = "parsed"
    /\ UNCHANGED <<cipher_idle, length, config, layout, prev, result, bytes, enc, shown, text,
                   decoded, probe_idle>>

\* box_points_to_bytes on the parsed points
PointsToBytes ==
    /\ pc = "parsed"
    /\ decoded' = box_points_to_bytes(parsed)
    /\ pc' = "decoded"
    /\ UNCHANGED <<cipher_idle, length, config, layout, prev, result, bytes, enc, shown, text,
                   parsed, probe_idle>>

MaxCodecLen == 3

MaxCodecDim == 3

CodecBlackoutLists ==
    {<<>>, << <<0, 0, <<"A">> >> >>, << <<1, 1, <<"A", "B">> >> >>,
     << <<0, 1, <<"#">> >> >>, << <<1, 0, <<"A">> >>, <<0, 1, <<"B">> >> >>}

CodecConfigs ==
    {None} \cup
    {Some([default_config EXCEPT !.min_width = mw, !.max_width = xw,
                                 !.max_height = xh, !.aspect_ratio = ar,
                                 !.blackouts = bl]) :
        mw \in {None, Some(1)}, xw \in {None, Some(MaxCodecDim)},
        xh \in {None, Some(MaxCodecDim)}, ar \in AspectOpts,
        bl \in CodecBlackoutLists}

\* a call of generate_boxes(bytes, config) with bytes.len() = length
InitCodec ==
    /\ pc = "start"
    /\ length \in 0..MaxCodecLen
    /\ config \in CodecConfigs
    /\ InitIdle

NextCodec ==
    \/ LayoutStart \/ LayoutGrow \/ LayoutReturn
    \/ GenerateUnwrapNone \/ GenerateBoxes \/ ParseBoxes \/ PointsToBytes

SpecCodec == InitCodec /\ [][NextCodec]_vars

----------------------------------------------------------------------------
(* The layout functions on arbitrary grids, as gen_layout (boxes.rs:392-404) *)
(* builds them: any rectangle of "#" and other cells.                        *)

MaxGridWidth == 3

MaxGridHeight == 3

Grids ==
    UNION {[1..h -> [1..w -> {FILLED, "X"}]] : w \in 1..MaxGridWidth, h \in 1..MaxGridHeight}

InitLayout ==
    /\ pc = "layout"
    /\ layout \in Grids
    /\ length = 0
    /\ config = None
    /\ prev = <<>>
    /\ result = None
    /\ bytes = <<>>
    /\ enc = None
    /\ shown = <<>>
    /\ text = None
    /\ parsed = <<>>
    /\ decoded = <<>>
    /\ capacity = None
    /\ estimate = None
    /\ conns = <<>>
    /\ packed = <<>>
    /\ unpacked = <<>>
    /\ cover = <<>>
    /\ curse = <<>>
    /\ alphabet = <<>>

sizer_idle == <<length, config, layout, prev, result>>

\* layout.calculate_bits()
CalculateBits ==
    /\ pc = "layout"
    /\ capacity' = Some(calculate_bits(layout))
    /\ pc' = "measured"
    /\ UNCHANGED <<cipher_idle, sizer_idle, codec_idle, estimate, conns>>

\* BoxLayout::estimate_bits(layout.width(), layout.height())
EstimateBits ==
    /\ pc = "measured"
    /\ estimate' = Some(estimate_bits(width(layout), height(layout)))
    /\ pc' = "estimated"
    /\ UNCHANGED <<cipher_idle, sizer_idle, codec_idle, capacity, conns>>

\* layout.get_connections_at(x, y) for every cell of the grid
Classify ==
    /\ pc = "estimated"
    /\ conns' = [y \in 1..height(layout) |->
                    [x \in 1..width(layout) |-> get_connections_at(layout, x - 1, y - 1)]]
    /\ pc' = "classified"
    /\ UNCHANGED <<cipher_idle, sizer_idle, codec_idle, capacity, estimate>>

NextLayout == CalculateBits \/ EstimateBits \/ Classify

SpecLayout == InitLayout /\ [][NextLayout]_vars

----------------------------------------------------------------------------
(* Properties *)

Min(a, b) == IF a <= b THEN a ELSE b

\* the first n elements of s, all of s when it is shorter
Take(s, n) == SubSeq(s, 1, Min(n, Len(s)))

\* C1: every completed round trip returns the payload: the bytes decoded from
\* the rendered text, truncated to the payload's length, are the payload.
C1_RoundTrip == pc = "decoded" => Take(decoded, length) = bytes

\* the maxima the call runs with: the configured ones, 8 * length by default
MaxWidthSet == config /= None /\ config[1].max_width /= None

MaxHeightSet == config /= None /\ config[1].max_height /= None

MaxWidth == IF MaxWidthSet THEN config[1].max_width[1] ELSE 8 * length

MaxHeight == IF MaxHeightSet THEN config[1].max_height[1] ELSE 8 * length

\* C2: when layout_byte_length has returned, it returned Some(the grid reached)
\* if that grid holds 8 * length bits within both maxima, and None if not.
C2_SomeIffFits ==
    pc = "sized" =>
        IF /\ calculate_bits(layout) >= 8 * length
           /\ width(layout) <= MaxWidth
           /\ height(layout) <= MaxHeight
        THEN result = Some(layout)
        ELSE result = None

\* a layout is returned after growth, under a configured maximum height
C2_Witness ==
    /\ pc = "sized"
    /\ result /= None
    /\ prev /= <<>>
    /\ MaxHeightSet

\* the bit-width of the class of a classified cell, 0 for a cell without class
class_bits(c) == IF c = None THEN 0 ELSE get_bits(c[1])

\* the sum of class_bits over the cells of the classified grid cs
SumOfWidths(cs) ==
    LET w == Len(cs[1])
        h == Len(cs)
        sum[k \in 0..(w * h)] ==
            IF k = 0 THEN 0
            ELSE sum[k - 1] + class_bits(cs[((k - 1) \div w) + 1][((k - 1) % w) + 1])
    IN sum[w * h]

\* C3: for every grid, calculate_bits() is the sum over the cells of the
\* bit-width of the cell's connectivity class.
C3_CapacityIsSumOfWidths ==
    pc = "classified" => capacity[1] = SumOfWidths(conns)

\* C4: for an all-filled grid of width >= 2 and height >= 2, estimate_bits is
\* 2*(width-1)*height + 2*(height-1)*width and equals calculate_bits().
C4_EstimateIsCapacity ==
    (/\ pc \in {"estimated", "classified"}
     /\ width(layout) >= 2
     /\ height(layout) >= 2
     /\ layout = new(width(layout), height(layout)))
    => /\ estimate[1] = 2 * (width(layout) - 1) * height(layout)
                        + 2 * (height(layout) - 1) * width(layout)
       /\ estimate = capacity

\* both functions have been applied to an all-filled grid that is not square
C4_Witness ==
    /\ pc = "estimated"
    /\ layout = new(3, 2)
    /\ estimate = Some(14)

\* C5: a growth step adds one row or one column, never both, never removes
\* one, and the capacity after it is strictly greater than before.
C5_GrowthStep ==
    [][(pc = "grow" /\ pc' = "grow") =>
          /\ \/ width(layout') = width(layout) + 1 /\ height(layout') = height(layout)
             \/ height(layout') = height(layout) + 1 /\ width(layout') = width(layout)
          /\ calculate_bits(layout') > calculate_bits(layout)]_vars

\* a row has been added to a grid that holds a blackout
C5_Witness ==
    /\ pc = "grow"
    /\ prev /= <<>>
    /\ blackouts_of(config) /= <<>>
    /\ height(layout) = height(prev) + 1

\* the cells rendered by display_bytes for the cell (x, y)
ShownAt(x, y) == {shown[k][3] : k \in {j \in 1..Len(shown) : shown[j][1] = x /\ shown[j][2] = y}}

\* C6: every character of every blackout is in its cell of the returned
\* layout, the cell is not Filled, and display_bytes emits the character for
\* that cell.
C6_BlackoutPreserved ==
    (pc \in {"sized", "rendered", "parsed", "decoded"} /\ result /= None) =>
        \A k \in 1..Len(blackouts_of(config)) :
            LET left == blackouts_of(config)[k][1]
                top == blackouts_of(config)[k][2]
                value == blackouts_of(config)[k][3]
            IN \A i \in 1..Len(value) :
                  /\ ~is_filled(result[1], left + i - 1, top)
                  /\ Cell(result[1], left + i - 1, top) = value[i]
                  /\ pc /= "sized" => ShownAt(left + i - 1, top) = {<<value[i]>>}

\* C7: the grid returned is the first of the growth path that holds
\* 8 * length bits: the grid before the last growth step held fewer; and the
\* calls of the tests return 7 x 5 (84 bits), 5 x 5 (80 bits) and 68 x 5
\* (1214 bits).
C7_FirstFit ==
    pc = "sized" =>
        /\ prev /= <<>> => calculate_bits(prev) < 8 * length
        /\ <<length, config>> = test_hello_call =>
              /\ result = Some(layout)
              /\ <<width(layout), height(layout), calculate_bits(layout)>> = <<7, 5, 84>>
        /\ <<length, config>> = test_default_call =>
              /\ result = Some(layout)
              /\ <<width(layout), height(layout), calculate_bits(layout)>> = <<5, 5, 80>>
        /\ <<length, config>> = test_wide_call =>
              /\ result = Some(layout)
              /\ <<width(layout), height(layout), calculate_bits(layout)>> = <<68, 5, 1214>>

\* the call for 150 bytes has returned its 68 x 5 grid after growing
C7_Witness ==
    /\ pc = "sized"
    /\ <<length, config>> = test_wide_call
    /\ prev /= <<>>
    /\ width(layout) = 68

\* the directions a class names
directions(c) ==
    CASE c = "RightDown" -> {"Right", "Down"}
      [] c = "LeftDown" -> {"Left", "Down"}
      [] c = "RightUp" -> {"Right", "Up"}
      [] c = "LeftUp" -> {"Left", "Up"}
      [] c = "DownUp" -> {"Down", "Up"}
      [] c = "RightLeft" -> {"Right", "Left"}
      [] c = "RightLeftDown" -> {"Right", "Left", "Down"}
      [] c = "RightLeftUp" -> {"Right", "Left", "Up"}
      [] c = "RightDownUp" -> {"Right", "Down", "Up"}
      [] c = "LeftDownUp" -> {"Left", "Down", "Up"}
      [] c = "All" -> {"Right", "Left", "Down", "Up"}

\* is the cell at (x, y) in the grid and Filled
FilledInGrid(l, x, y) ==
    /\ x >= 0 /\ x < Len(l[1])
    /\ y >= 0 /\ y < Len(l)
    /\ l[y + 1][x + 1] = FILLED

\* the directions in which the cell (x, y) has a Filled neighbour
filled_directions(l, x, y) ==
    {d \in {"Right", "Left", "Down", "Up"} :
        \/ d = "Right" /\ FilledInGrid(l, x + 1, y)
        \/ d = "Left" /\ FilledInGrid(l, x - 1, y)
        \/ d = "Down" /\ FilledInGrid(l, x, y + 1)
        \/ d = "Up" /\ FilledInGrid(l, x, y - 1)}

\* C8: a Filled cell has a class exactly when two or more of its neighbours
\* are Filled; the class names exactly the Filled directions and its bit-width
\* is their number; a cell that is not Filled has no class.
C8_Classification ==
    pc = "classified" =>
        \A y \in 0..(height(layout) - 1), x \in 0..(width(layout) - 1) :
            LET c == conns[y + 1][x + 1]
                ds == filled_directions(layout, x, y)
            IN IF layout[y + 1][x + 1] /= FILLED THEN c = None
               ELSE /\ c /= None <=> Cardinality(ds) >= 2
                    /\ c /= None => /\ directions(c[1]) = ds
                                    /\ get_bits(c[1]) = Cardinality(ds)

\* a classified grid with a cell of four Filled neighbours, a Filled cell of
\* one Filled neighbour and a cell that is not Filled
C8_Witness ==
    /\ pc = "classified"
    /\ layout = << <<"X", "#", "#">>, <<"#", "#", "#">>, <<"X", "#", "X">> >>
    /\ conns[2][2] = Some("All")
    /\ conns[3][2] = None
    /\ conns[1][3] = Some("LeftDown")

\* C9: with neither maximum configured the sizing never fails.
C9_DefaultMaximaSuffice ==
    (pc = "sized" /\ ~MaxWidthSet /\ ~MaxHeightSet) => result /= None

\* the glyph families with the bit-width of their class
glyph_families ==
    << <<TOP_LEFT, 2>>, <<TOP_RIGHT, 2>>, <<BOTTOM_LEFT, 2>>, <<BOTTOM_RIGHT, 2>>,
       <<LEFT, 3>>, <<RIGHT, 3>>, <<TOP, 3>>, <<BOTTOM, 3>>, <<CROSS, 4>>,
       <<HORIZONTAL, 2>>, <<VERTICAL, 2>> >>

Range(f) == {f[i] : i \in DOMAIN f}

Reverse(f) == [i \in 1..Len(f) |-> f[Len(f) + 1 - i]]

\* C10: the glyph families are pairwise disjoint, each holds 2^width distinct
\* glyphs, and the pair parsed for a glyph of the rendered text is the same
\* when the families are tested in the opposite order.
C10_FamiliesDisjoint ==
    /\ \A i, j \in 1..Len(glyph_families) :
          i /= j => Range(glyph_families[i][1]) \cap Range(glyph_families[j][1]) = {}
    /\ \A i \in 1..Len(glyph_families) :
          /\ Len(glyph_families[i][1]) = Pow2(glyph_families[i][2])
          /\ Cardinality(Range(glyph_families[i][1])) = Pow2(glyph_families[i][2])
    /\ text /= None =>
          \A i \in 1..Len(text[1]) :
              parse_grapheme(<<text[1][i]>>, families)
                  = parse_grapheme(<<text[1][i]>>, Reverse(families))

\* a text has been rendered that holds a glyph of a 4-bit, a 3-bit and a 2-bit
\* family
C10_Witness ==
    /\ pc = "rendered"
    /\ Range(text[1]) \cap Range(CROSS) /= {}
    /\ Range(text[1]) \cap Range(TOP) /= {}
    /\ Range(text[1]) \cap Range(TOP_LEFT) /= {}

----------------------------------------------------------------------------
(* u32 arithmetic of cursed.rs.  A u32 is held as its four bytes, most     *)
(* significant first, so that every value up to 2^32 - 1 is represented    *)
(* with its full width.                                                    *)

\* cursed.rs:20, 35, 63, 73: my_u32 = 0
u32_zero == <<0, 0, 0, 0>>

\* the u32 of a value below 2^31
u32_from(n) == <<n \div 16777216, (n \div 65536) % 256, (n \div 256) % 256, n % 256>>

\* line 23: (my_u32 << 8) | byte; the shift drops the top byte
shl8_or(v, byte) == <<v[2], v[3], v[4], byte>>

\* long division of v by d from the top byte: acc.q the quotient so far,
\* acc.r the running remainder
RECURSIVE div_limbs(_, _, _, _)
div_limbs(v, d, i, acc) ==
    IF i > Len(v) THEN acc
    ELSE LET t == acc.r * 256 + v[i]
         IN  div_limbs(v, d, i + 1, [q |-> Append(acc.q, t \div d), r |-> t % d])

\* my_u32 / d
u32_div(v, d) == div_limbs(v, d, 1, [q |-> <<>>, r |-> 0]).q

\* my_u32 % d
u32_rem(v, d) == div_limbs(v, d, 1, [q |-> <<>>, r |-> 0]).r

\* v * m from the low byte; carry /= 0 at the end is an overflow of the u32
RECURSIVE mul_limbs(_, _, _, _)
mul_limbs(v, m, i, acc) ==
    IF i = 0 THEN acc
    ELSE LET t == v[i] * m + acc.carry
         IN  mul_limbs(v, m, i - 1, [limbs |-> <<t % 256>> \o acc.limbs, carry |-> t \div 256])

u32_mul(v, m) == mul_limbs(v, m, 4, [limbs |-> <<>>, carry |-> 0])

\* a + b from the low byte; carry /= 0 at the end is an overflow of the u32
RECURSIVE add_limbs(_, _, _, _)
add_limbs(a, b, i, acc) ==
    IF i = 0 THEN acc
    ELSE LET t == a[i] + b[i] + acc.carry
         IN  add_limbs(a, b, i - 1, [limbs |-> <<t % 256>> \o acc.limbs, carry |-> t \div 256])

u32_add(a, b) == add_limbs(a, b, 4, [limbs |-> <<>>, carry |-> 0])

----------------------------------------------------------------------------
(* The diacritic codec, cursed.rs:5-90 *)

BASE_DIACTRICS_START == 768

BASE_DIACTRICS_END == 879

DIACTRICS_BASE == 112

ZWJ == 8205

is_diactric_mut(c) == c >= BASE_DIACTRICS_START /\ c < BASE_DIACTRICS_END

\* lines 13-16
is_diactric(c) == c >= BASE_DIACTRICS_START /\ c <= BASE_DIACTRICS_END

\* lines 26-34, 40-46, 48-52, 54-56: n times push my_u32 % DIACTRICS_BASE,
\* dividing my_u32 by DIACTRICS_BASE between two pushes
RECURSIVE push_digits(_, _, _)
push_digits(results, my_u32, n) ==
    IF n = 0 THEN results
    ELSE push_digits(Append(results, u32_rem(my_u32, DIACTRICS_BASE)),
                     u32_div(my_u32, DIACTRICS_BASE), n - 1)

\* lines 22-38: the loop over the bytes from index i
RECURSIVE diactrics_loop(_, _, _)
diactrics_loop(bs, i, st) ==
    IF i > Len(bs) THEN st
    ELSE LET my_u32 == shl8_or(st.my_u32, bs[i])
             bits == st.bits + 8
         IN  IF bits = 32
             THEN diactrics_loop(bs, i + 1,
                      [results |-> push_digits(st.results, my_u32, 5),
                       my_u32 |-> u32_zero, bits |-> 0])
             ELSE diactrics_loop(bs, i + 1,
                      [results |-> st.results, my_u32 |-> my_u32, bits |-> bits])

\* lines 18-59
bytes_to_diactrics_points(bs) ==
    LET st == diactrics_loop(bs, 1, [results |-> <<>>, my_u32 |-> u32_zero, bits |-> 0])
    IN  IF st.bits = 24 THEN push_digits(st.results, st.my_u32, 4)
        ELSE IF st.bits = 16 THEN push_digits(st.results, st.my_u32, 3)
        ELSE IF st.bits = 8 THEN push_digits(st.results, st.my_u32, 2)
        ELSE st.results

\* lines 65-76: the loop over the points from index i.  overflow records
\* that line 66 left the range of a u32: a build with overflow checks panics
\* there, a build without them goes on with the wrapped value.
RECURSIVE points_to_bytes_fold(_, _, _)
points_to_bytes_fold(ps, i, st) ==
    IF i > Len(ps) THEN st
    ELSE LET term == u32_mul(u32_from(DIACTRICS_BASE ^ st.significance), ps[i])
             sum == u32_add(st.my_u32, term.limbs)
             overflow == st.overflow \/ term.carry /= 0 \/ sum.carry /= 0
             my_u32 == sum.limbs
         IN  IF st.significance + 1 = 5
             THEN points_to_bytes_fold(ps, i + 1,
                      [results |-> st.results \o my_u32, my_u32 |-> u32_zero,
                       significance |-> 0, overflow |-> overflow])
             ELSE points_to_bytes_fold(ps, i + 1,
                      [results |-> st.results, my_u32 |-> my_u32,
                       significance |-> st.significance + 1, overflow |-> overflow])

\* lines 61-90; panic is the panic! of line 87
diatric_points_to_bytes_run(ps) ==
    LET st == points_to_bytes_fold(ps, 1, [results |-> <<>>, my_u32 |-> u32_zero,
                                           significance |-> 0, overflow |-> FALSE])
        v == st.my_u32
        results ==
            IF st.significance = 4 THEN st.results \o <<v[2], v[3], v[4]>>
            ELSE IF st.significance = 3 THEN st.results \o <<v[3], v[4]>>
            ELSE IF st.significance = 2 THEN st.results \o <<v[4]>>
            ELSE st.results
    IN  [results |-> results, overflow |-> st.overflow, panic |-> st.significance = 1]

diatric_points_to_bytes(ps) == diatric_points_to_bytes_run(ps).results

----------------------------------------------------------------------------
(* CursedConfig, cursed.rs:92-226.  A text is a sequence of code points. *)

\* lines 98-106
CursedConfig_default ==
    [diatrics_break |-> None, max_diactrics_per_letter |-> None, max_diatrics |-> None]

\* lines 113-118
discord ==
    [diatrics_break |-> Some(<<ZWJ>>), max_diactrics_per_letter |-> Some(3),
     max_diatrics |-> Some(20)]

\* char::len_utf8
len_utf8(c) == IF c < 128 THEN 1 ELSE IF c < 2048 THEN 2 ELSE IF c < 65536 THEN 3 ELSE 4

\* str::len: the length in bytes
RECURSIVE text_len(_)
text_len(t) == IF t = <<>> THEN 0 ELSE len_utf8(Head(t)) + text_len(Tail(t))

\* usize::div_ceil, for b > 0
div_ceil(a, b) == (a + b - 1) \div b

\* line 170: usize::div_ceil divides by zero
can_curse_panics(cfg, data_length) ==
    /\ cfg.max_diatrics /= None => (data_length \div 4) * 5 <= cfg.max_diatrics[1]
    /\ cfg.diatrics_break = None
    /\ cfg.max_diactrics_per_letter = Some(0)

\* lines 160-174, when it returns
can_curse(cfg, text_length, data_length) ==
    LET diatrics_for_data == (data_length \div 4) * 5
    IN  IF ~(cfg.max_diatrics = None \/ diatrics_for_data <= cfg.max_diatrics[1])
        THEN FALSE
        ELSE IF cfg.diatrics_break /= None THEN TRUE
        ELSE IF cfg.max_diactrics_per_letter /= None
        THEN text_length > div_ceil(diatrics_for_data, cfg.max_diactrics_per_letter[1])
        ELSE TRUE

\* lines 188-205: for dia_idx in dia_idx..diatrics_per_letter
RECURSIVE diatrics_loop(_, _, _, _, _)
diatrics_loop(cfg, ps, st, dia_idx, diatrics_per_letter) ==
    IF dia_idx >= diatrics_per_letter \/ st.panic THEN st
    ELSE LET pushed ==
                 IF st.point_index < Len(ps)
                 THEN [st EXCEPT !.cursed_text =
                                     Append(@, BASE_DIACTRICS_START + ps[st.point_index + 1]),
                                 !.point_index = @ + 1]
                 ELSE st
             max == cfg.max_diactrics_per_letter
             broken ==
                 IF max = None THEN pushed
                 ELSE IF max[1] = 0 THEN [pushed EXCEPT !.panic = TRUE]
                 ELSE IF (dia_idx + 1) % max[1] /= 0 THEN pushed
                 ELSE IF cfg.diatrics_break /= None
                 THEN [pushed EXCEPT !.cursed_text = @ \o cfg.diatrics_break[1]]
                 ELSE [pushed EXCEPT !.panic = TRUE]
         IN  diatrics_loop(cfg, ps, broken, dia_idx + 1, diatrics_per_letter)

\* lines 184-207: for c in text.chars(), from the i-th character
RECURSIVE chars_loop(_, _, _, _, _)
chars_loop(cfg, ps, t, i, st) ==
    IF i > Len(t) \/ st.panic THEN st
    ELSE LET characters_left == Len(t) - (i - 1)
             pushed == [st EXCEPT !.cursed_text = Append(@, t[i])]
             points_left == Len(ps) - st.point_index
             diatrics_per_letter == div_ceil(points_left, characters_left)
         IN  chars_loop(cfg, ps, t, i + 1,
                        diatrics_loop(cfg, ps, pushed, 0, diatrics_per_letter))

\* lines 176-209; panic is one of the panic! of lines 178 and 201 or a
\* division by zero
generate_curse_run(cfg, t, data) ==
    LET start == [cursed_text |-> <<>>, point_index |-> 0, panic |-> FALSE]
    IN  IF can_curse_panics(cfg, Len(data)) \/ ~can_curse(cfg, text_len(t), Len(data))
        THEN [start EXCEPT !.panic = TRUE]
        ELSE chars_loop(cfg, bytes_to_diactrics_points(data), t, 1, start)

generate_curse(cfg, t, data) == generate_curse_run(cfg, t, data).cursed_text

\* lines 217-226
RECURSIVE parse_curse_to_points(_)
parse_curse_to_points(t) ==
    IF t = <<>> THEN <<>>
    ELSE IF is_diactric(Head(t))
         THEN <<Head(t) - BASE_DIACTRICS_START>> \o parse_curse_to_points(Tail(t))
         ELSE parse_curse_to_points(Tail(t))

----------------------------------------------------------------------------
(* Calls of the diacritic codec: the round trips of test_bytes_to_bytes    *)
(* and stress_test, cursed.rs:275-291, 318-332                             *)

MaxCurseLen == 5

MaxCoverLen == 2

\* byte values: 111 is the largest digit, 255 fills every bit of the u32
CurseBytes == {0, 111, 255}

\* the letter a and the combining acute accent
CoverChars == {97, 769}

SeqsUpTo(S, n) == UNION {[1..k -> S] : k \in 0..n}

CurseConfigs == {CursedConfig_default, discord}

boxes_idle == <<length, config, layout, prev, result, enc, shown, decoded, probe_idle>>

InitCurse ==
    /\ pc = "curse"
    /\ bytes \in SeqsUpTo(CurseBytes, MaxCurseLen)
    /\ cover \in SeqsUpTo(CoverChars, MaxCoverLen)
    /\ curse \in CurseConfigs
    /\ length = 0
    /\ config = None
    /\ layout = <<>>
    /\ prev = <<>>
    /\ result = None
    /\ enc = None
    /\ shown = <<>>
    /\ text = None
    /\ parsed = <<>>
    /\ decoded = <<>>
    /\ capacity = None
    /\ estimate = None
    /\ conns = <<>>
    /\ packed = <<>>
    /\ unpacked = <<>>
    /\ alphabet = <<>>

\* let points = bytes_to_diactrics_points(&bytes)
BytesToDiactricsPoints ==
    /\ pc = "curse"
    /\ packed' = bytes_to_diactrics_points(bytes)
    /\ pc' = "curse_points"
    /\ UNCHANGED <<boxes_idle, bytes, text, parsed, unpacked, cover, curse, alphabet>>

\* let bytes_2 = diatric_points_to_bytes(points)
DiatricPointsToBytes ==
    /\ pc = "curse_points"
    /\ LET run == diatric_points_to_bytes_run(packed)
       IN  /\ unpacked' = run.results
           /\ pc' \in (IF run.panic THEN {"unpack_panic"}
                       ELSE IF run.overflow THEN {"unpack_panic", "curse_unpacked"}
                       ELSE {"curse_unpacked"})
    /\ UNCHANGED <<boxes_idle, bytes, text, parsed, packed, cover, curse, alphabet>>

\* let curse = curse_config.generate_curse(text, &bytes)
GenerateCurse ==
    /\ pc = "curse_unpacked"
    /\ LET run == generate_curse_run(curse, cover, bytes)
       IN  /\ text' = IF run.panic THEN None ELSE Some(run.cursed_text)
           /\ pc' = IF run.panic THEN "curse_panic" ELSE "cursed"
    /\ UNCHANGED <<boxes_idle, bytes, parsed, packed, unpacked, cover, curse, alphabet>>

\* let points_2 = parse_curse_to_points(&curse)
ParseCurseToPoints ==
    /\ pc = "cursed"
    /\ parsed' = parse_curse_to_points(text[1])
    /\ pc' = "curse_parsed"
    /\ UNCHANGED <<boxes_idle, bytes, text, packed, unpacked, cover, curse, alphabet>>

NextCurse ==
    BytesToDiactricsPoints \/ DiatricPointsToBytes \/ GenerateCurse \/ ParseCurseToPoints

SpecCurse == InitCurse /\ [][NextCurse]_vars

\* the number of points of n bytes: five per full group of four bytes, and
\* k + 1 for a rest of k bytes
PointCount(n) == 5 * (n \div 4) + (IF n % 4 = 0 THEN 0 ELSE (n % 4) + 1)

----------------------------------------------------------------------------
(* The rune codec, futhark.rs.  An alphabet and a string of runes are      *)
(* sequences of graphemes.                                                 *)

\* line 5
ALPHA_NUM ==
    <<"A", "B", "C", "D", "E", "F", "G", "H", "I", "J", "K", "L", "M", "N", "O", "P",
      "Q", "R", "S", "T", "U", "V", "W", "X", "Y", "Z", "1", "2", "3", "4", "5", "6">>

\* line 122
ascii_alphabet ==
    <<"a", "b", "c", "d", "e", "f", "g", "h", "i", "j", "k", "l", "m", "n", "o", "p",
      "q", "r", "s", "t", "u", "v", "w", "x", "y", "z", "1", "2", "3", "4", "5", "6">>

\* line 21: alphabet.position(|alpha| alpha == rune), counted from 0
position(alpha, rune) ==
    IF \E i \in 1..Len(alpha) : alpha[i] = rune
    THEN Some((CHOOSE i \in 1..Len(alpha) :
                   alpha[i] = rune /\ \A j \in 1..(i - 1) : alpha[j] /= rune) - 1)
    ELSE None

\* lines 17-29
RECURSIVE parse_runes_to_points(_, _)
parse_runes_to_points(runes, alpha) ==
    IF runes = <<>> THEN <<>>
    ELSE LET idx == position(alpha, Head(runes))
         IN  IF idx = None THEN parse_runes_to_points(Tail(runes), alpha)
             ELSE IF idx[1] = 32 THEN <<idx[1] % 256>>
             ELSE <<idx[1] % 256>> \o parse_runes_to_points(Tail(runes), alpha)

\* lines 40-53: the loop over the points from index i
RECURSIVE rune_points_loop(_, _, _)
rune_points_loop(ps, i, st) ==
    IF i > Len(ps) THEN st
    ELSE LET added ==
                 IF st.offset = 0
                 THEN [st EXCEPT !.bits = ps[i], !.offset = 5]
                 ELSE [st EXCEPT !.bits = bit_or(@, shl(ps[i], st.offset)),
                                 !.offset = @ + 5]
             flushed ==
                 IF added.offset >= 8
                 THEN [results |-> Append(added.results, low_bits(added.bits, 8)),
                       bits |-> shr(added.bits, 8), offset |-> added.offset - 8]
                 ELSE added
         IN  rune_points_loop(ps, i + 1, flushed)

\* lines 36-55
futhark_points_to_bytes(ps) ==
    rune_points_loop(ps, 1, [results |-> <<>>, bits |-> 0, offset |-> 0]).results

\* lines 60-63
parse_runes(runes, alpha) == futhark_points_to_bytes(parse_runes_to_points(runes, alpha))

\* lines 92-96: while offset >= 5
RECURSIVE push_points(_)
push_points(st) ==
    IF st.offset >= 5
    THEN push_points([results |-> Append(st.results, low_bits(st.bits, 5)),
                      bits |-> shr(st.bits, 5), offset |-> st.offset - 5])
    ELSE st

\* lines 89-97: the loop over the bytes from index i
RECURSIVE rune_bytes_loop(_, _, _)
rune_bytes_loop(bs, i, st) ==
    IF i > Len(bs) THEN st
    ELSE rune_bytes_loop(bs, i + 1,
             push_points([st EXCEPT !.bits = bit_or(@, shl(bs[i], st.offset)),
                                    !.offset = @ + 8]))

futhark_bytes_to_points_mut(bs) ==
    rune_bytes_loop(bs, 1, [results |-> <<>>, bits |-> 0, offset |-> 0]).results

\* lines 85-102
futhark_bytes_to_points(bs) ==
    LET st == rune_bytes_loop(bs, 1, [results |-> <<>>, bits |-> 0, offset |-> 0])
    IN  IF st.offset /= 0 THEN Append(st.results, st.bits % 256) ELSE st.results

\* lines 113-119; panic is the unwrap of nth(point) on None
generate_runes_run(bs, alpha) ==
    LET ps == futhark_bytes_to_points(bs)
    IN  [panic |-> \E i \in 1..Len(ps) : ps[i] >= Len(alpha),
         runes |-> [i \in 1..Len(ps) |-> IF ps[i] < Len(alpha) THEN alpha[ps[i] + 1] ELSE ""]]

generate_runes(bs, alpha) == generate_runes_run(bs, alpha).runes

----------------------------------------------------------------------------
(* Calls of the rune codec: test_parse_runes, test_generate_runes and      *)
(* test_points, futhark.rs:147-169, 199-207                                *)

MaxRuneLen == 5

\* 64 and 5 are the bytes of the tests, 255 sets every bit
RuneBytes == {0, 5, 64, 255}

Alphabets == {ALPHA_NUM, ascii_alphabet}

InitRunes ==
    /\ pc = "runes"
    /\ bytes \in SeqsUpTo(RuneBytes, MaxRuneLen)
    /\ alphabet \in Alphabets
    /\ cover = <<>>
    /\ curse = <<>>
    /\ length = 0
    /\ config = None
    /\ layout = <<>>
    /\ prev = <<>>
    /\ result = None
    /\ enc = None
    /\ shown = <<>>
    /\ text = None
    /\ parsed = <<>>
    /\ decoded = <<>>
    /\ capacity = None
    /\ estimate = None
    /\ conns = <<>>
    /\ packed = <<>>
    /\ unpacked = <<>>

\* bytes_to_points(bytes)
RunesBytesToPoints ==
    /\ pc = "runes"
    /\ packed' = futhark_bytes_to_points(bytes)
    /\ pc' = "rune_points"
    /\ UNCHANGED <<boxes_idle, bytes, text, parsed, unpacked, cover, curse, alphabet>>

\* points_to_bytes(points)
RunesPointsToBytes ==
    /\ pc = "rune_points"
    /\ unpacked' = futhark_points_to_bytes(packed)
    /\ pc' = "rune_unpacked"
    /\ UNCHANGED <<boxes_idle, bytes, text, parsed, packed, cover, curse, alphabet>>

\* generate_runes(bytes, alphabet)
GenerateRunes ==
    /\ pc = "rune_unpacked"
    /\ LET run == generate_runes_run(bytes, alphabet)
       IN  /\ text' = IF run.panic THEN None ELSE Some(run.runes)
           /\ pc' = IF run.panic THEN "runes_panic" ELSE "runes_made"
    /\ UNCHANGED <<boxes_idle, bytes, parsed, packed, unpacked, cover, curse, alphabet>>

\* parse_runes(runes, alphabet)
ParseRunes ==
    /\ pc = "runes_made"
    /\ parsed' = parse_runes_to_points(text[1], alphabet)
    /\ decoded' = parse_runes(text[1], alphabet)
    /\ pc' = "runes_parsed"
    /\ UNCHANGED <<length, config, layout, prev, result, enc, shown, probe_idle,
                   bytes, text, packed, unpacked, cover, curse, alphabet>>

NextRunes == RunesBytesToPoints \/ RunesPointsToBytes \/ GenerateRunes \/ ParseRunes

SpecRunes == InitRunes /\ [][NextRunes]_vars

\* bit i of the bytes bs read in order, least significant bit first; 0 past
\* the end
StreamBit(bs, i) ==
    IF i >= 8 * Len(bs) THEN 0 ELSE (bs[(i \div 8) + 1] \div Pow2(i % 8)) % 2

\* the value of the bits [from, from + n) of the stream
RECURSIVE StreamSlice(_, _, _)
StreamSlice(bs, from, n) ==
    IF n = 0 THEN 0 ELSE StreamBit(bs, from) + 2 * StreamSlice(bs, from + 1, n - 1)

\* C12: bytes_to_points(b) yields ceil(8 * len(b) / 5) points, each in 0..31
\* and equal to the matching 5-bit slice of b read least significant bit
\* first; points_to_bytes of these points is b; and with an alphabet of 32
\* distinct graphemes parse_runes(generate_runes(b, A), A) is b.
C12_RuneRoundTrip ==
    /\ pc /= "runes" =>
           /\ Len(packed) = (8 * Len(bytes) + 4) \div 5
           /\ \A k \in 1..Len(packed) :
                  /\ packed[k] \in 0..31
                  /\ packed[k] = StreamSlice(bytes, 5 * (k - 1), 5)
    /\ pc \notin {"runes", "rune_points"} => unpacked = bytes
    /\ pc /= "runes_panic"
    /\ pc = "runes_parsed" => parsed = packed /\ decoded = bytes

\* the bytes [64, 5] of the tests were written as AKBA and read back
C12_Witness ==
    /\ pc = "runes_parsed"
    /\ alphabet = ALPHA_NUM
    /\ Cardinality(Range(alphabet)) = 32
    /\ bytes = <<64, 5>>
    /\ packed = <<0, 10, 1, 0>>
    /\ text = Some(<<"A", "K", "B", "A">>)
    /\ unpacked = bytes
    /\ decoded = bytes

----------------------------------------------------------------------------
(* Properties of the encoder on the layouts the sizer returns *)

\* C13: once layout_byte_length has returned a layout for the payload's
\* length, bytes_to_points and display_bytes never leave the grid: the
\* cursor has y < height whenever a cell is inspected, so generate_boxes
\* does not fail.
C13_CursorStaysInGrid ==
    /\ enc /= None => ~enc[1].panic
    /\ pc = "panic" => result = None

\* the width of the point taken for the cell c = <<x, y>> of the layout l
cell_bits(l, c) == get_bits(get_connections_at(l, c[1], c[2])[1])

RECURSIVE SumBits(_, _)
SumBits(l, cells) ==
    IF cells = <<>> THEN 0 ELSE cell_bits(l, Head(cells)) + SumBits(l, Tail(cells))

\* C14: on a returned layout bytes_to_points emits every bit of the payload:
\* the widths of the emitted points sum to 8 * len and the accumulator is
\* empty when the last byte has been processed.
C14_EveryBitEmitted ==
    (enc /= None /\ ~enc[1].panic) =>
        /\ SumBits(result[1], enc[1].cells) = 8 * length
        /\ enc[1].offset = 0

\* C15: display_bytes writes exactly one character for every cell in
\* row-major order (the blackout character, a glyph of the cell's class, or
\* one space for a Filled cell without class), with a line break between
\* two rows and none after the last: the text has height lines of width
\* characters.
C15_OneCharacterPerCell ==
    (pc \in {"rendered", "parsed", "decoded"} /\ text /= None) =>
        LET l == result[1]
            w == width(l)
            h == height(l)
            t == text[1]
        IN  /\ Len(t) = h * w + (h - 1)
            /\ \A y \in 0..(h - 2) : t[(y + 1) * (w + 1)] = "\n"
            /\ \A y \in 0..(h - 1) : \A x \in 0..(w - 1) :
                   LET ch == t[y * (w + 1) + x + 1]
                       blackout == get_blackout_at(l, x, y)
                       connection == get_connections_at(l, x, y)
                   IN  IF blackout /= None THEN <<ch>> = blackout
                       ELSE IF connection /= None
                       THEN \E i \in 1..Len(my_chars(connection[1])) :
                                ch = my_chars(connection[1])[i]
                       ELSE ch = " "

----------------------------------------------------------------------------
(* bytes_to_points on arbitrary grids, as test_bytes_to_points             *)
(* (boxes.rs:448-469) calls it on the layouts of gen_layout                *)

MaxEncWidth == 3

MaxEncHeight == 3

MaxEncLen == 2

MaxEncBlackouts == 2

\* the rectangles of "#" and "X" with at most MaxEncBlackouts cells "X"
EncGrids ==
    {g \in UNION {[1..h -> [1..w -> {FILLED, "X"}]] :
                      w \in 1..MaxEncWidth, h \in 1..MaxEncHeight} :
        Cardinality({c \in (1..Len(g[1])) \X (1..Len(g)) : g[c[2]][c[1]] /= FILLED})
            <= MaxEncBlackouts}

InitEncode ==
    /\ pc = "encode"
    /\ layout \in EncGrids
    /\ bytes \in SeqsUpTo(ByteVals, MaxEncLen)
    /\ length = Len(bytes)
    /\ config = None
    /\ prev = <<>>
    /\ result = None
    /\ enc = None
    /\ shown = <<>>
    /\ text = None
    /\ parsed = <<>>
    /\ decoded = <<>>
    /\ capacity = None
    /\ estimate = None
    /\ conns = <<>>
    /\ packed = <<>>
    /\ unpacked = <<>>
    /\ cover = <<>>
    /\ curse = <<>>
    /\ alphabet = <<>>

\* layout.bytes_to_points(bytes)
BytesToPoints ==
    /\ pc = "encode"
    /\ LET run == bytes_to_points_run(layout, bytes)
       IN  /\ enc' = Some(run)
           /\ pc' = IF run.panic THEN "panic" ELSE "encoded"
    /\ UNCHANGED <<cipher_idle, sizer_idle, probe_idle, bytes, shown, text, parsed, decoded>>

NextEncode == BytesToPoints

SpecEncode == InitEncode /\ [][NextEncode]_vars

\* the cells of l that have a connectivity class, in row-major order
classed_cells(l) ==
    LET all == [i \in 1..(width(l) * height(l)) |->
                    <<(i - 1) % width(l), (i - 1) \div width(l)>>]
    IN  SelectSeq(all, LAMBDA c : get_connections_at(l, c[1], c[2]) /= None)

\* C16: when bytes_to_points returns, the k-th point was taken for the k-th
\* cell with a connectivity class in row-major order, is below 2^w_k for that
\* cell's width w_k and is the value of the bits [s_k, s_k + w_k) of the
\* payload read least significant bit first, s_k being the sum of the widths
\* of the earlier points; cells without class take no point and no bit.
C16_PointsAreBitSlices ==
    (pc = "encoded" /\ enc /= None) =>
        LET run == enc[1]
            cells == classed_cells(layout)
        IN  /\ Len(run.cells) = Len(run.results)
            /\ Len(run.results) <= Len(cells)
            /\ \A k \in 1..Len(run.results) :
                   LET w == cell_bits(layout, cells[k])
                       s == SumBits(layout, SubSeq(cells, 1, k - 1))
                   IN  /\ run.cells[k] = cells[k]
                       /\ run.results[k] \in 0..(Pow2(w) - 1)
                       /\ run.results[k] = StreamSlice(bytes, s, w)

\* a grid with a blackout and a dead-end cell, both skipped, took five points
C16_Witness ==
    /\ pc = "encoded"
    /\ layout = << <<"#", "X", "#">>, <<"#", "#", "#">>, <<"#", "#", "#">> >>
    /\ bytes = <<165, 165>>
    /\ Len(enc[1].results) >= 5
    /\ enc[1].cells[1] = <<0, 1>>

----------------------------------------------------------------------------
(* parse_boxes_to_points and box_points_to_bytes on arbitrary texts, as    *)
(* test_parse_boxes_to_points and test_box_points_to_bytes                 *)
(* (boxes.rs:572-614) call them                                            *)

MaxParseLen == 4

\* every glyph the renderer can choose
Glyphs == UNION {Range(my_chars(c)) : c \in Connections}

\* characters of no family: a space, a line break, blackout text
PlainChars == {" ", "\n", "A", "#", "X"}

\* glyphs of the widths 2, 3 and 4, a space and a letter
ParseChars == {TOP_LEFT[1], VERTICAL[4], LEFT[6], BOTTOM[8], CROSS[11], CROSS[16], " ", "A"}

ParseTexts ==
    {<<ch>> : ch \in Glyphs \cup PlainChars} \cup SeqsUpTo(ParseChars, MaxParseLen)

InitParse ==
    /\ pc = "rendered"
    /\ \E t \in ParseTexts : text = Some(t)
    /\ length = 0
    /\ config = None
    /\ layout = <<>>
    /\ prev = <<>>
    /\ result = None
    /\ bytes = <<>>
    /\ enc = None
    /\ shown = <<>>
    /\ parsed = <<>>
    /\ decoded = <<>>
    /\ capacity = None
    /\ estimate = None
    /\ conns = <<>>
    /\ packed = <<>>
    /\ unpacked = <<>>
    /\ cover = <<>>
    /\ curse = <<>>
    /\ alphabet = <<>>

NextParse == ParseBoxes \/ PointsToBytes

SpecParse == InitParse /\ [][NextParse]_vars

\* the sum of the widths of the pairs ps
RECURSIVE SumWidths(_)
SumWidths(ps) == IF ps = <<>> THEN 0 ELSE Head(ps)[2] + SumWidths(Tail(ps))

\* bit i of the stream of the points ps, each written least significant bit
\* first on its width
RECURSIVE PointBit(_, _)
PointBit(ps, i) ==
    IF ps = <<>> THEN 0
    ELSE IF i < Head(ps)[2] THEN (Head(ps)[1] \div Pow2(i)) % 2
    ELSE PointBit(Tail(ps), i - Head(ps)[2])

\* the value of the bits [from, from + n) of the stream of ps
RECURSIVE PointSlice(_, _, _)
PointSlice(ps, from, n) ==
    IF n = 0 THEN 0 ELSE PointBit(ps, from) + 2 * PointSlice(ps, from + 1, n - 1)

\* C17: for pairs (point, width) with width in {2, 3, 4} and point < 2^width,
\* box_points_to_bytes returns floor(sum of the widths / 8) bytes, byte j
\* being the bits [8j, 8j + 8) of the points concatenated least significant
\* bit first; the trailing bits are dropped.
C17_BytesOfPointStream ==
    (pc = "decoded"
        /\ \A k \in 1..Len(parsed) :
               parsed[k][2] \in {2, 3, 4} /\ parsed[k][1] \in 0..(Pow2(parsed[k][2]) - 1)) =>
        /\ Len(decoded) = SumWidths(parsed) \div 8
        /\ \A j \in 1..Len(decoded) : decoded[j] = PointSlice(parsed, 8 * (j - 1), 8)

\* points of 3, 4, 2 and 4 bits gave one byte; the last 5 bits were dropped
C17_Witness ==
    /\ pc = "decoded"
    /\ parsed = << <<5, 3>>, <<15, 4>>, <<3, 2>>, <<10, 4>> >>
    /\ decoded = <<253>>

\* the pairs (point, width) that select the character ch
glyph_pairs(ch) ==
    {<<p, get_bits(c)>> : <<c, p>> \in
        {cp \in Connections \X (0..15) : get_character(cp[1], cp[2]) = Some(ch)}}

\* glyph_pairs of every character of the texts
glyph_table == [ch \in Glyphs \cup PlainChars |-> glyph_pairs(ch)]

\* the pairs of the glyphs of the text t, in order
RECURSIVE PairsOf(_)
PairsOf(t) ==
    IF t = <<>> THEN <<>>
    ELSE IF glyph_table[Head(t)] = {} THEN PairsOf(Tail(t))
    ELSE <<CHOOSE pr \in glyph_table[Head(t)] : TRUE>> \o PairsOf(Tail(t))

\* C18: parse_boxes_to_points of the single glyph get_character(c, p) is
\* [(p, get_bits(c))] for every class c and point p < 2^get_bits(c); in any
\* text the characters of no glyph family add no pair, so the result is the
\* list of the pairs of the text's glyphs, in order.
C18_ParseInvertsGlyphs ==
    (pc \in {"parsed", "decoded"} /\ text /= None) =>
        /\ Len(text[1]) = 1 =>
               \A c \in Connections : \A p \in 0..(Pow2(get_bits(c)) - 1) :
                   text[1][1] = get_character(c, p)[1] => parsed = << <<p, get_bits(c)>> >>
        /\ \A i \in 1..Len(text[1]) : Cardinality(glyph_table[text[1][i]]) <= 1
        /\ parsed = PairsOf(text[1])

\* a text of glyphs with a space and a letter between them was parsed
C18_Witness ==
    /\ pc = "parsed"
    /\ text = Some(<<CROSS[16], " ", "A", LEFT[6]>>)
    /\ parsed = << <<15, 4>>, <<5, 3>> >>

----------------------------------------------------------------------------
(* Properties of the growth loop of layout_byte_length *)

\* the target ratio of the call as a fraction, 1/1 by default
TargetRatio == IF config /= None /\ config[1].aspect_ratio /= None
               THEN config[1].aspect_ratio[1] ELSE <<1, 1>>

\* height / width of the grid l is below the target ratio
BelowTarget(l) == height(l) * TargetRatio[2] < TargetRatio[1] * width(l)

\* the grid l grew by one row to become m
RowAdded(l, m) == height(m) = height(l) + 1 /\ width(m) = width(l)

\* the grid l grew by one column to become m
ColumnAdded(l, m) == width(m) = width(l) + 1 /\ height(m) = height(l)

\* C19 as stated: in a growth step where neither maximum is reached, a row
\* is appended when height / width is at or above the target aspect_ratio,
\* and a column otherwise.
C19_RowAtOrAboveTarget ==
    [][(pc = "grow" /\ pc' = "grow"
            /\ width(layout) < MaxWidth /\ height(layout) < MaxHeight) =>
          (RowAdded(layout, layout') <=> ~BelowTarget(layout))]_vars

\* C19, amended: a growth step appends a row when height / width is below
\* the target aspect_ratio and height < max_height, or when the width has
\* reached max_width, and a column otherwise; so where neither maximum is
\* reached a row is appended exactly when the ratio is below the target.
C19_RowBelowTarget ==
    [][(pc = "grow" /\ pc' = "grow") =>
          /\ RowAdded(layout, layout') <=>
                 \/ BelowTarget(layout) /\ height(layout) < MaxHeight
                 \/ width(layout) >= MaxWidth
          /\ ~RowAdded(layout, layout') => ColumnAdded(layout, layout')
          /\ (width(layout) < MaxWidth /\ height(layout) < MaxHeight) =>
                 (RowAdded(layout, layout') <=> BelowTarget(layout))]_vars

\* with neither maximum reached, a row was added to a grid below the target
\* ratio 2.0 and, in another step, a column to a grid at the target
C19_Witness ==
    /\ pc = "grow"
    /\ prev /= <<>>
    /\ TargetRatio = <<2, 1>>
    /\ width(prev) < MaxWidth
    /\ height(prev) < MaxHeight
    /\ BelowTarget(prev)
    /\ RowAdded(prev, layout)

\* the sizer under the fairness of a running call: a step that can be taken
\* is taken
SpecTerm == Init /\ [][Next]_vars /\ WF_vars(Next)

\* the base layout of the call is within both maxima
StartsWithinMaxima ==
    width(base_layout(config)) <= MaxWidth /\ height(base_layout(config)) <= MaxHeight

\* C20: the growth loop terminates for every length and config, also with
\* minima above the maxima: each iteration adds exactly one row or one
\* column, a column only while width < max_width and a row only while
\* height < max_height, so a grid that starts within its maxima stays within
\* them and no step is taken once both maxima are reached.
C20_GrowthTerminates ==
    /\ <>(pc = "sized")
    /\ [][(pc = "grow" /\ pc' = "grow") =>
             /\ RowAdded(layout, layout') \/ ColumnAdded(layout, layout')
             /\ ColumnAdded(layout, layout') => width(layout) < MaxWidth
             /\ RowAdded(layout, layout') => height(layout) < MaxHeight
             /\ ~(width(layout) >= MaxWidth /\ height(layout) >= MaxHeight)]_vars
    /\ []((pc \in {"grow", "sized"} /\ StartsWithinMaxima) =>
             (width(layout) <= MaxWidth /\ height(layout) <= MaxHeight))

\* a call with min_width above max_width has grown and returned
C20_Witness ==
    /\ pc = "sized"
    /\ prev /= <<>>
    /\ config /= None
    /\ config[1].min_width = Some(2)
    /\ config[1].max_width = Some(1)
    /\ ~StartsWithinMaxima

----------------------------------------------------------------------------
(* Properties of the cells after the last point *)

\* bit i of the stream the rendered text is expected to carry: the bits of
\* the payload that were emitted as points, then zeros
ExpectedBit(i) ==
    IF i < SumBits(result[1], enc[1].cells) THEN StreamBit(bytes, i) ELSE 0

RECURSIVE ExpectedSlice(_, _)
ExpectedSlice(from, n) ==
    IF n = 0 THEN 0 ELSE ExpectedBit(from) + 2 * ExpectedSlice(from + 1, n - 1)

\* C21: once the points of the payload are used up, display_bytes renders
\* every remaining cell with a connectivity class as the glyph of index 0 of
\* its class; the pairs parsed from the text are the emitted points followed
\* by points 0, and the bytes decoded are the emitted payload bits followed
\* by zero bits only.
C21_RestRendersZero ==
    (pc \in {"rendered", "parsed", "decoded"} /\ enc /= None /\ text /= None) =>
        LET l == result[1]
            cells == classed_cells(l)
            results == enc[1].results
        IN  /\ Len(results) <= Len(cells)
            /\ \A k \in (Len(results) + 1)..Len(cells) :
                   ShownAt(cells[k][1], cells[k][2]) =
                       {<<my_chars(get_connections_at(l, cells[k][1], cells[k][2])[1])[1]>>}
            /\ pc \in {"parsed", "decoded"} =>
                   parsed = [k \in 1..Len(cells) |->
                                <<IF k <= Len(results) THEN results[k] ELSE 0,
                                  cell_bits(l, cells[k])>>]
            /\ pc = "decoded" =>
                   /\ Len(decoded) = SumBits(l, cells) \div 8
                   /\ \A j \in 1..Len(decoded) : decoded[j] = ExpectedSlice(8 * (j - 1), 8)

\* a payload with bits set was decoded from a grid with more classed cells
\* than points, the cells after the last point giving a byte of zeros
C21_Witness ==
    /\ pc = "decoded"
    /\ enc /= None
    /\ 165 \in Range(bytes)
    /\ Len(classed_cells(result[1])) > Len(enc[1].results)
    /\ Len(decoded) > Len(bytes)
    /\ decoded[Len(decoded)] = 0

----------------------------------------------------------------------------
(* layout_byte_length with the default config *)

MaxDefaultLen == 24

\* layout_byte_length(len, None) and layout_byte_length(len,
\* Some(BoxLayoutConfig::default())) for len >= 1; the call of
\* test_layout_data is len = 8
DefaultCalls == (1..MaxDefaultLen) \X {None, Some(default_config)}

InitDefault ==
    /\ pc = "start"
    /\ \E c \in DefaultCalls : length = c[1] /\ config = c[2]
    /\ InitIdle

SpecDefault == InitDefault /\ [][Next]_vars

\* C22: with the default config every grid of the growth loop, the returned
\* one included, has height <= width <= height + 1, and neither dimension
\* reaches the default maximum of 8 * len; the call returns the grid the
\* loop ended with.
C22_DefaultNearSquare ==
    /\ pc \in {"grow", "sized"} =>
           /\ height(layout) <= width(layout)
           /\ width(layout) <= height(layout) + 1
           /\ width(layout) < max_width_of(length, config)
           /\ height(layout) < max_height_of(length, config)
           /\ max_width_of(length, config) = 8 * length
           /\ max_height_of(length, config) = 8 * length
    /\ pc = "sized" => result = Some(layout)

\* layout_byte_length(8, None) of test_layout_data has grown the 2 x 2 grid
\* to the 5 x 5 grid and returned it
C22_Witness ==
    /\ pc = "sized"
    /\ length = 8
    /\ config = None
    /\ result = Some(new(5, 5))
    /\ width(prev) = 5 /\ height(prev) = 4

----------------------------------------------------------------------------
(* can_curse as the guard of generate_curse *)

MaxCanLen == 4

MaxCanCover == 2

MaxCanPerLetter == 3

MaxCanDiatrics == 5

CanBytes == {0, 255}

\* the letter a (one byte of UTF-8) and e with acute (two bytes)
CanChars == {97, 233}

\* CursedConfig::new() followed by any of with_zwj_break, with_no_break,
\* max_diactrics_per_letter(n), max_diactrics(n), with_no_max_diactrics
BuilderConfigs ==
    [diatrics_break : {None, Some(<<ZWJ>>)},
     max_diactrics_per_letter : {None} \cup {Some(n) : n \in 0..MaxCanPerLetter},
     max_diatrics : {None} \cup {Some(n) : n \in 0..MaxCanDiatrics}]

InitCan ==
    /\ pc = "can_curse"
    /\ bytes \in SeqsUpTo(CanBytes, MaxCanLen)
    /\ cover \in SeqsUpTo(CanChars, MaxCanCover)
    /\ curse \in BuilderConfigs
    /\ length = 0
    /\ config = None
    /\ layout = <<>>
    /\ prev = <<>>
    /\ result = None
    /\ enc = None
    /\ shown = <<>>
    /\ text = None
    /\ parsed = <<>>
    /\ decoded = <<>>
    /\ capacity = None
    /\ estimate = None
    /\ conns = <<>>
    /\ packed = <<>>
    /\ unpacked = <<>>
    /\ alphabet = <<>>

\* config.can_curse(text.len(), data.len())
CanCurse ==
    /\ pc = "can_curse"
    /\ pc' = IF can_curse_panics(curse, Len(bytes)) THEN "can_curse_panic"
             ELSE IF can_curse(curse, text_len(cover), Len(bytes)) THEN "curse_allowed"
             ELSE "curse_refused"
    /\ UNCHANGED <<boxes_idle, bytes, text, parsed, packed, unpacked, cover, curse, alphabet>>

\* config.generate_curse(text, data) after can_curse returned true
GenerateCurseAllowed ==
    /\ pc = "curse_allowed"
    /\ LET run == generate_curse_run(curse, cover, bytes)
       IN  /\ text' = IF run.panic THEN None ELSE Some(run.cursed_text)
           /\ pc' = IF run.panic THEN "curse_panic" ELSE "cursed"
    /\ UNCHANGED <<boxes_idle, bytes, parsed, packed, unpacked, cover, curse, alphabet>>

NextCan == CanCurse \/ GenerateCurseAllowed

SpecCan == InitCan /\ [][NextCan]_vars

\* the number of combining diacritics of a text
RECURSIVE DiacriticCount(_)
DiacriticCount(t) ==
    IF t = <<>> THEN 0
    ELSE (IF is_diactric(Head(t)) THEN 1 ELSE 0) + DiacriticCount(Tail(t))

\* C23: for every config of the builder, every text and every data, when
\* can_curse(text.len(), data.len()) returned true generate_curse(text, data)
\* does not panic and its result holds at most max_diatrics diacritics when
\* that limit is set.
C23_CanCurseSuffices ==
    /\ pc /= "curse_panic"
    /\ (pc = "cursed" /\ curse.max_diatrics /= None) =>
           DiacriticCount(text[1]) <= curse.max_diatrics[1]

\* the first half alone: no panic after can_curse returned true
C23_NoPanicWhenAllowed == pc /= "curse_panic"

\* the second half alone: the limit of max_diatrics is kept
C23_LimitKept ==
    (pc = "cursed" /\ curse.max_diatrics /= None) =>
        DiacriticCount(text[1]) <= curse.max_diatrics[1]

====
